---- MODULE Spec2Model ----
(***************************************************************************)
(* Model of the Arriba fusion-detection process                            *)
(* (resolwe_bio/processes/fusion_calling/arriba.py, class Arriba).         *)
(*                                                                         *)
(* One behaviour is one invocation of Arriba.run(inputs, outputs).  The    *)
(* inputs are bound before run is entered, so Init draws them; the actions *)
(* are the statements of run in program order.  The command string the     *)
(* code concatenates is modelled as the sequence of its space-separated    *)
(* tokens.  self.error(msg) reports msg and raises, which ends the run.    *)
(***************************************************************************)
EXTENDS Integers, Sequences, FiniteSets, TLC

VARIABLES
    inputs,       \* the bound input fields of this invocation
    pc,           \* position of the run
    bam_file,     \* local variable bam_file of run (its .path), NoData while unbound
    cmd,          \* local variable cmd of run, as a token sequence
    progress,     \* markers passed to self.progress, in order
    launched,     \* number of subprocesses started by Cmd(cmd) & TEE
    return_code,  \* local variable return_code, NoCode until the tool exits
    outputs,      \* declared outputs: set of <<field name, value>>
    errors        \* failures reported to the caller, each a token sequence

vars == <<inputs, pc, bam_file, cmd, progress, launched, return_code, outputs, errors>>

----------------------------------------------------------------------------
(* Bounds of the model *)

\* longest annotation file (rows of its first column) that is enumerated
MaxRows == 3

----------------------------------------------------------------------------
(* Values *)

\* an optional DataField that was not supplied (falsy in `if inputs.x:`)
NoData == "<none>"

\* return_code before the tool has exited
NoCode == -1

\* values of chim_out_type: the two choices and one the code does not know
Modes == {"WithinBam", "SAMSeparateOld", "Junctions"}

\* exit statuses of the external tool that are enumerated
ExitCodes == {0, 1, 137}

\* contig identifiers in the first column of the annotation file
ContigNames == {"chr1", "chr2"}

\* the reads artifact: inputs.bam.output.bam.path and .chimeric.path
BamArtifact == [bam |-> "aligned.bam", chimeric |-> "Chimeric.out.sam"]

\* the annotation artifact's path: inputs.gtf_file.output.annot.path
AnnotPath == "annotation.gtf"

\* the log the command redirects to, and the value of outputs.log
LogPath == "arriba.log"

\* fields declared by class Input
InputFields ==
    {"bam", "chim_out_type", "output_file", "discarded_fusions_file",
     "gtf_file", "blacklist_file", "known_fusions_file"}

\* fields declared by class Output
OutputFields == {"fusions", "discarded_fusions", "log"}

\* annotation files: every sequence of at most MaxRows first-column values
RowSeqs == UNION {[1..n -> ContigNames] : n \in 0..MaxRows}

\* the invocations that are enumerated.  genome is the artifact the test
\* passes under the key "genome"; gtf_rows is the content of the annotation.
InputSpace ==
    [bam : {BamArtifact},
     chim_out_type : Modes,
     output_file : {"fusions.tsv", "sample1_fusions.tsv"},
     discarded_fusions_file : {"discarded_fusions.tsv", "sample1_discarded.tsv"},
     gtf_file : {AnnotPath},
     gtf_rows : RowSeqs,
     blacklist_file : {NoData, "blacklist.tsv"},
     known_fusions_file : {NoData, "known_fusions.tsv"},
     genome : {NoData, "minigenome.fasta"}]

\* messages of the two self.error calls and of the failed attribute lookup
InvalidModeMsg == <<"Invalid", "chimeric", "output", "type", "specified.">>
ToolFailedMsg == <<"Arriba", "process", "failed.">>
AttributeErrorMsg == <<"AttributeError", "intergenic_fusions_file">>

----------------------------------------------------------------------------
(* Pure parts of run *)

\* ResolveReads with the else branch falling back to the combined file
ResolveReadsSilentDefault(i) ==
    IF i.chim_out_type = "SAMSeparateOld"
    THEN [ok |-> TRUE, path |-> i.bam.chimeric]
    ELSE [ok |-> TRUE, path |-> i.bam.bam]

\* ResolveReads with the two files exchanged
ResolveReadsSwapped(i) ==
    IF i.chim_out_type = "WithinBam"
    THEN [ok |-> TRUE, path |-> i.bam.chimeric]
    ELSE IF i.chim_out_type = "SAMSeparateOld"
    THEN [ok |-> TRUE, path |-> i.bam.bam]
    ELSE [ok |-> FALSE, path |-> NoData]

\* the if / elif / else on inputs.chim_out_type
ResolveReads(i) ==
    IF i.chim_out_type = "WithinBam"
    THEN [ok |-> TRUE, path |-> i.bam.bam]
    ELSE IF i.chim_out_type = "SAMSeparateOld"
    THEN [ok |-> TRUE, path |-> i.bam.chimeric]
    ELSE [ok |-> FALSE, path |-> NoData]

\* BuildCmd with the known-fusions test nested under the blacklist test
BuildCmdNested(reads, i) ==
    <<"arriba", "-x", reads, "-o", i.output_file,
      "-O", i.discarded_fusions_file, "-a", i.gtf_file>>
    \o (IF i.blacklist_file # NoData
        THEN <<"-g", i.blacklist_file>>
             \o (IF i.known_fusions_file # NoData
                 THEN <<"-k", i.known_fusions_file>> ELSE <<>>)
        ELSE <<>>)
    \o <<"1>", LogPath, "2>&1">>

\* the command string: the fixed part, the two optional parts, the redirection
BuildCmd(reads, i) ==
    <<"arriba", "-x", reads, "-o", i.output_file,
      "-O", i.discarded_fusions_file, "-a", i.gtf_file>>
    \o (IF i.blacklist_file # NoData THEN <<"-g", i.blacklist_file>> ELSE <<>>)
    \o (IF i.known_fusions_file # NoData THEN <<"-k", i.known_fusions_file>> ELSE <<>>)
    \o <<"1>", LogPath, "2>&1">>

\* ReturnCodeFails comparing with status 1 only
ReturnCodeFailsOnlyOne(rc) == rc = 1

\* `if return_code:`
ReturnCodeFails(rc) == rc # 0

----------------------------------------------------------------------------
(* The run *)

Init ==
    /\ inputs \in InputSpace
    /\ pc = "NotStarted"
    /\ bam_file = NoData
    /\ cmd = <<>>
    /\ progress = <<>>
    /\ launched = 0
    /\ return_code = NoCode
    /\ outputs = {}
    /\ errors = <<>>

\* run is entered
Enter ==
    /\ pc = "NotStarted"
    /\ pc' = "Resolving"
    /\ UNCHANGED <<inputs, bam_file, cmd, progress, launched, return_code, outputs, errors>>

\* bam_file is chosen by the mode, or the invalid-mode error ends the run
Resolve ==
    /\ pc = "Resolving"
    /\ LET r == ResolveReads(inputs) IN
        IF r.ok
        THEN /\ bam_file' = r.path
             /\ pc' = "Building"
             /\ UNCHANGED errors
        ELSE /\ errors' = Append(errors, InvalidModeMsg)
             /\ pc' = "Failed"
             /\ UNCHANGED bam_file
    /\ UNCHANGED <<inputs, cmd, progress, launched, return_code, outputs>>

\* cmd is concatenated
Build ==
    /\ pc = "Building"
    /\ cmd' = BuildCmd(bam_file, inputs)
    /\ pc' = "Built"
    /\ UNCHANGED <<inputs, bam_file, progress, launched, return_code, outputs, errors>>

\* self.progress(0.1)
ReportStart ==
    /\ pc = "Built"
    /\ progress' = Append(progress, "0.1")
    /\ pc' = "Launching"
    /\ UNCHANGED <<inputs, bam_file, cmd, launched, return_code, outputs, errors>>

\* Cmd(cmd) & TEE(retcode=None): the subprocess is started
Launch ==
    /\ pc = "Launching"
    /\ launched' = launched + 1
    /\ pc' = "Running"
    /\ UNCHANGED <<inputs, bam_file, cmd, progress, return_code, outputs, errors>>

\* the subprocess exits; retcode=None makes no status raise
ToolExit ==
    /\ pc = "Running"
    /\ \E code \in ExitCodes : return_code' = code
    /\ pc' = "Exited"
    /\ UNCHANGED <<inputs, bam_file, cmd, progress, launched, outputs, errors>>

\* CheckReturnCode starting the tool once more after a non-zero status
CheckReturnCodeRetry ==
    /\ pc = "Exited"
    /\ IF ReturnCodeFails(return_code)
       THEN /\ pc' = IF launched < 2 THEN "Launching" ELSE "Failed"
            /\ errors' = Append(errors, ToolFailedMsg)
       ELSE /\ pc' = "SaveFusions"
            /\ UNCHANGED errors
    /\ UNCHANGED <<inputs, bam_file, cmd, progress, launched, return_code, outputs>>

\* `if return_code: self.error("Arriba process failed.")`
CheckReturnCode ==
    /\ pc = "Exited"
    /\ IF ReturnCodeFails(return_code)
       THEN /\ errors' = Append(errors, ToolFailedMsg)
            /\ pc' = "Failed"
       ELSE /\ pc' = "SaveFusions"
            /\ UNCHANGED errors
    /\ UNCHANGED <<inputs, bam_file, cmd, progress, launched, return_code, outputs>>

\* outputs.fusions = inputs.output_file
SaveFusions ==
    /\ pc = "SaveFusions"
    /\ outputs' = outputs \cup {<<"fusions", inputs.output_file>>}
    /\ pc' = "SaveDiscarded"
    /\ UNCHANGED <<inputs, bam_file, cmd, progress, launched, return_code, errors>>

\* outputs.discarded_fusions = inputs.discarded_fusions_file
SaveDiscarded ==
    /\ pc = "SaveDiscarded"
    /\ outputs' = outputs \cup {<<"discarded_fusions", inputs.discarded_fusions_file>>}
    /\ pc' = "SaveRest"
    /\ UNCHANGED <<inputs, bam_file, cmd, progress, launched, return_code, errors>>

\* outputs.intergenic_fusions = inputs.intergenic_fusions_file, then
\* outputs.log = "arriba.log" and self.progress(1.0).  The attribute lookup
\* raises unless both fields are declared, and the exception ends the run.
SaveRest ==
    /\ pc = "SaveRest"
    /\ IF "intergenic_fusions_file" \in InputFields /\ "intergenic_fusions" \in OutputFields
       THEN /\ outputs' = outputs \cup {<<"intergenic_fusions", NoData>>, <<"log", LogPath>>}
            /\ progress' = Append(progress, "1.0")
            /\ pc' = "Succeeded"
            /\ UNCHANGED errors
       ELSE /\ errors' = Append(errors, AttributeErrorMsg)
            /\ pc' = "Failed"
            /\ UNCHANGED <<outputs, progress>>
    /\ UNCHANGED <<inputs, bam_file, cmd, launched, return_code>>

Next ==
    \/ Enter
    \/ Resolve
    \/ Build
    \/ ReportStart
    \/ Launch
    \/ ToolExit
    \/ CheckReturnCode
    \/ SaveFusions
    \/ SaveDiscarded
    \/ SaveRest

Spec == Init /\ [][Next]_vars

\* run is sequential code and the awaited tool exits: no step waits forever
FairSpec == Init /\ [][Next]_vars /\ WF_vars(Next)

----------------------------------------------------------------------------
(* Vocabulary of the properties *)

Terminal == pc \in {"Succeeded", "Failed"}

RecognizedModes == {"WithinBam", "SAMSeparateOld"}

\* the tokens of command c
Tokens(c) == {c[k] : k \in 1..Len(c)}

\* the values that follow flag f in command c
ValuesOf(c, f) == {c[k + 1] : k \in {j \in 1..(Len(c) - 1) : c[j] = f}}

\* the number of times token t occurs in command c
Occurrences(c, t) == Cardinality({k \in 1..Len(c) : c[k] = t})

\* the distinct identifiers of an annotation's first column
Contigs(rows) == {rows[k] : k \in 1..Len(rows)}

\* long is short with one flag of its own and the value val put in at one place
Inserted(short, long, val) ==
    /\ Len(long) = Len(short) + 2
    /\ \E k \in 0..Len(short) :
        /\ long[k + 1] \notin Tokens(short)
        /\ long[k + 2] = val
        /\ SubSeq(long, 1, k) = SubSeq(short, 1, k)
        /\ SubSeq(long, k + 3, Len(long)) = SubSeq(short, k + 1, Len(short))

\* the path an optional artifact has when it is supplied
OptPath(opt) == IF opt = "blacklist_file" THEN "blacklist.tsv" ELSE "known_fusions.tsv"

\* the inputs i with the optional artifact opt supplied if absent, dropped if present
Toggle(i, opt) == [i EXCEPT ![opt] = IF @ = NoData THEN OptPath(opt) ELSE NoData]

\* the three outputs class Output declares, with the values run assigns
AllThreeOutputs ==
    {<<"fusions", inputs.output_file>>,
     <<"discarded_fusions", inputs.discarded_fusions_file>>,
     <<"log", LogPath>>}

\* the lifecycle state a position of run belongs to
PhaseOf(p) ==
    CASE p = "NotStarted" -> "NotStarted"
      [] p = "Resolving" -> "Resolving"
      [] p \in {"Building", "Built", "Launching"} -> "Building"
      [] p \in {"Running", "Exited", "SaveFusions", "SaveDiscarded", "SaveRest"} -> "Running"
      [] p = "Succeeded" -> "Succeeded"
      [] OTHER -> "Failed"

Phase == PhaseOf(pc)

\* the lifecycle's transitions; a run fails out of Resolving or out of Running
PhaseSteps ==
    {<<"NotStarted", "Resolving">>, <<"Resolving", "Building">>,
     <<"Building", "Running">>, <<"Running", "Succeeded">>,
     <<"Running", "Failed">>, <<"Resolving", "Failed">>}

----------------------------------------------------------------------------
(* Properties *)

\* C1: a run with a recognized mode whose tool exits with status 0 ends in
\* Succeeded with exactly fusions, discarded_fusions and log declared, with
\* the values inputs.output_file, inputs.discarded_fusions_file and arriba.log.
C1_SucceedsWithAllOutputs ==
    (Terminal /\ return_code = 0) =>
        /\ inputs.chim_out_type \in RecognizedModes
        /\ pc = "Succeeded"
        /\ outputs = AllThreeOutputs

\* C2: once the tool has exited with a non-zero status no output is ever
\* declared (the output set stays as it was before the run, empty), and the
\* run ends Failed with a failure reported.
C2_NoOutputsOnNonZeroExit ==
    return_code > 0 =>
        /\ outputs = {}
        /\ pc \in {"Exited", "Failed"}
        /\ (pc = "Failed" => errors = <<ToolFailedMsg>>)

C2_Witness ==
    /\ pc = "Failed"
    /\ return_code = 137
    /\ errors = <<ToolFailedMsg>>
    /\ outputs = {}

\* C3: with a chim_out_type that is neither WithinBam nor SAMSeparateOld the
\* run fails with the invalid-mode error out of Resolving: no command is
\* built, no progress is reported and no subprocess is started.
C3_InvalidModeFailsEarly ==
    (inputs.chim_out_type \notin RecognizedModes) =>
        /\ pc \in {"NotStarted", "Resolving", "Failed"}
        /\ cmd = <<>>
        /\ bam_file = NoData
        /\ progress = <<>>
        /\ launched = 0
        /\ return_code = NoCode
        /\ (pc = "Failed" => errors = <<InvalidModeMsg>>)

C3_Witness ==
    /\ inputs.chim_out_type = "Junctions"
    /\ pc = "Failed"
    /\ errors = <<InvalidModeMsg>>
    /\ cmd = <<>>

\* C4: the value of -x in the built command is the combined alignment path
\* for WithinBam and the separate chimeric path for SAMSeparateOld; -x occurs
\* once and the path of the other file occurs nowhere in the command.
C4_ReadsPathByMode ==
    cmd # <<>> =>
        LET want == IF inputs.chim_out_type = "WithinBam"
                    THEN inputs.bam.bam ELSE inputs.bam.chimeric
            other == IF inputs.chim_out_type = "WithinBam"
                     THEN inputs.bam.chimeric ELSE inputs.bam.bam
        IN /\ inputs.chim_out_type \in RecognizedModes
           /\ Occurrences(cmd, "-x") = 1
           /\ ValuesOf(cmd, "-x") = {want}
           /\ Occurrences(cmd, want) = 1
           /\ other \notin Tokens(cmd)

C4_Witness ==
    /\ inputs.chim_out_type = "SAMSeparateOld"
    /\ Len(cmd) >= 3
    /\ cmd[2] = "-x"
    /\ cmd[3] = "Chimeric.out.sam"

\* C5: when a blacklist artifact is supplied, the built command carries its
\* path as the value of -b, under no other flag, and has no -f flag.
C5_BlacklistUnderB ==
    (cmd # <<>> /\ inputs.blacklist_file # NoData) =>
        /\ ValuesOf(cmd, "-b") = {inputs.blacklist_file}
        /\ "-f" \notin Tokens(cmd)
        /\ \A k \in 1..(Len(cmd) - 1) :
            cmd[k + 1] = inputs.blacklist_file => cmd[k] = "-b"

\* C6: when a genome artifact is supplied and the annotation's first column
\* holds exactly chr1 and chr2, the built command carries the genome path and
\* an -i argument listing chr1 and chr2 once each.
C6_GenomeAndContigList ==
    (cmd # <<>> /\ inputs.genome # NoData /\ Contigs(inputs.gtf_rows) = {"chr1", "chr2"}) =>
        /\ inputs.genome \in Tokens(cmd)
        /\ Occurrences(cmd, "-i") = 1
        /\ ValuesOf(cmd, "-i") \subseteq {"chr1 chr2", "chr2 chr1"}

\* C7: the built command is the one its inputs determine; it starts with
\* arriba -x -o -O -a and their values in this order and ends with the log
\* redirection; supplying or dropping the blacklist or the known-fusions
\* artifact puts in or takes out one flag of its own with that artifact's
\* path, and changes nothing else of the command.
C7_OptionalFlagsIndependent ==
    cmd # <<>> =>
        /\ cmd = BuildCmd(ResolveReads(inputs).path, inputs)
        /\ SubSeq(cmd, 1, 9) =
            <<"arriba", "-x", ResolveReads(inputs).path, "-o", inputs.output_file,
              "-O", inputs.discarded_fusions_file, "-a", inputs.gtf_file>>
        /\ SubSeq(cmd, Len(cmd) - 2, Len(cmd)) = <<"1>", LogPath, "2>&1">>
        /\ \A opt \in {"blacklist_file", "known_fusions_file"} :
            LET toggled == Toggle(inputs, opt)
                cmd2 == BuildCmd(ResolveReads(toggled).path, toggled)
            IN IF inputs[opt] # NoData
               THEN Inserted(cmd2, cmd, inputs[opt])
               ELSE Inserted(cmd, cmd2, toggled[opt])

C7_Witness ==
    /\ inputs.blacklist_file = NoData
    /\ inputs.known_fusions_file # NoData
    /\ Len(cmd) = 14
    /\ "-k" \in Tokens(cmd)

\* C8: a run that failed because the tool exited non-zero reports a failure
\* that carries the log path arriba.log, and a run in Succeeded has its
\* outputs declared.
C8_FailureCarriesLog ==
    /\ (pc = "Failed" /\ return_code > 0) =>
        /\ errors # <<>>
        /\ LogPath \in Tokens(errors[Len(errors)])
    /\ pc = "Succeeded" => AllThreeOutputs \subseteq outputs

\* C9: the run moves only along NotStarted -> Resolving -> Building ->
\* Running -> {Succeeded, Failed} (failing out of Resolving or Running), the
\* tool is started at most once, Succeeded and Failed are left by no step,
\* and every run reaches one of them.
C9_Lifecycle ==
    /\ [][Phase' = Phase \/ <<Phase, Phase'>> \in PhaseSteps]_vars
    /\ [](launched <= 1)
    /\ [][~Terminal]_vars
    /\ <>Terminal

C9_Witness ==
    /\ pc = "Failed"
    /\ launched = 1
    /\ return_code = 1

\* C10: progress is reported as 0.1 and then 1.0 and nothing else; 0.1 after
\* the command is built and before the tool is started; 1.0 only after exit
\* status 0 with all outputs declared, never in a run that fails; and a run
\* whose tool exited 0 has reported 1.0 when it ends.
C10_ProgressMilestones ==
    /\ progress \in {<<>>, <<"0.1">>, <<"0.1", "1.0">>}
    /\ (progress # <<>> => cmd # <<>>)
    /\ (launched > 0 => progress # <<>>)
    /\ (Len(progress) = 2 => return_code = 0 /\ AllThreeOutputs \subseteq outputs)
    /\ (pc = "Failed" => Len(progress) < 2)
    /\ ((Terminal /\ return_code = 0) => Len(progress) = 2)

====
